---- MODULE Spec2Model ----
(***************************************************************************)
(* Model of scripts/generate_asn_database.py: the three-tier ASN database  *)
(* generator (PeeringDB primary, RIPE NCC RIS fallback, stale retention).  *)
(*                                                                         *)
(* Representation of Python values:                                        *)
(*   - None is [t |-> "None"], a dict is [t |-> "dict", d |-> record], a   *)
(*     list is [t |-> "list", l |-> sequence], an int inside a JSON list   *)
(*     is [t |-> "int", v |-> n];                                          *)
(*   - a string the code builds from parts is the tuple of its parts:      *)
(*     "PeeringDB" is <<"PeeringDB">>, "A + B" is <<"A", " + ", "B">>,     *)
(*     "AS15169" is <<"AS", 15169>>, and the empty string is <<>>;         *)
(*   - an optional field that is missing or null is absent from the        *)
(*     record (dict.get returns None for both).                            *)
(***************************************************************************)
EXTENDS Integers, Sequences, FiniteSets, TLC

\* ------------------------------------------------------------------ bounds
\* Number of entries a healthy upstream response carries above the minimum.
Surplus == 10

\* --------------------------------------------------------------- constants
\* Number of ASN keys the snapshots handed to merge_databases on its own
\* draw their entries from.
NKeys == 2

\* Longest list handed to a transformer on its own.
MaxLen == 2

MIN_EXPECTED_ENTRIES == 1000
MAX_RETRIES == 3
RETRY_DELAY_SECONDS == 10

PEERINGDB_API == "https://www.peeringdb.com/api/net"
RIPE_RIS_ASNS_API == "https://stat.ripe.net/data/ris-asns/data.json?list_asns=true&asn_types=o"

None == [t |-> "None"]
EmptyStr == <<>>
EmptyDict == <<>>

\* str(asn) of an int is its decimal numeral.  A numeral is named by the int
\* it denotes: the keys of known_asns and of every entries dict are numerals,
\* int -> numeral is injective, and no code parses a key back.
str(asn) == asn

\* f"AS{asn}"
ASName(asn) == <<"AS", asn>>

\* The ASN numbers of the keys of the known_asns dict literal, in source
\* order, repeated keys included (the literal has 831 items, 638 distinct).
known_asns_literal ==
  <<
    15169, 16509, 8075, 14618, 36492, 45566, 37963, 132203, 13238, 60068, 14061, 63949,
    20473, 16276, 24940, 51167, 213230, 212317, 8560, 29838, 398324, 135377, 55967, 38365,
    58466, 136907, 55990, 132591, 131477, 16510, 19047, 38895, 62785, 31898, 7160, 140034,
    13335, 20940, 54113, 46489, 16625, 21342, 35994, 393234, 209242, 22822, 15133, 14153,
    30675, 18717, 19551, 55429, 8068, 198047, 60626, 136787, 133877, 395747, 202623, 30148,
    200856, 203898, 36408, 2906, 40027, 55095, 32934, 63293, 54115, 32787, 714, 6185,
    2709, 36183, 23286, 19679, 62041, 44907, 8403, 36040, 43515, 36561, 13414, 35995,
    54888, 63179, 132892, 138699, 396986, 13767, 16591, 41264, 139190, 2687, 395973, 40428,
    393414, 7377, 23059, 46264, 36259, 11664, 14907, 43821, 22394, 10310, 14510, 26101,
    10753, 17506, 14413, 40793, 33425, 63223, 36631, 394536, 16509, 394406, 49544, 19437,
    395502, 13414, 20057, 14340, 133493, 132203, 45090, 132591, 17858, 131965, 9370, 14618,
    25820, 52347, 209197, 36351, 14618, 54098, 395831, 27176, 109, 16550, 5765, 8068,
    21574, 45634, 136907, 16509, 3356, 1299, 174, 6939, 2914, 3257, 6453, 6461,
    6762, 1239, 701, 7018, 3491, 9002, 4637, 5511, 12956, 2828, 6830, 1273,
    3549, 4323, 6327, 577, 6327, 852, 812, 22652, 5769, 6327, 30036, 209,
    20912, 8220, 9121, 8345, 31133, 42610, 12389, 3216, 8359, 8402, 7922, 7015,
    33650, 33651, 33652, 33489, 33490, 33491, 20001, 11351, 11427, 20115, 33363, 10796,
    11426, 7843, 12271, 22773, 6848, 5650, 6128, 12271, 6167, 701, 702, 22394,
    6167, 19262, 22394, 21928, 20057, 7018, 6389, 2386, 5688, 11486, 5693, 22561,
    6347, 7029, 26827, 30036, 11232, 11404, 7029, 7065, 3320, 6805, 3209, 8881,
    31334, 6830, 8422, 15600, 3303, 6730, 12322, 15557, 3215, 5410, 6461, 2856,
    5089, 6871, 2529, 5607, 13285, 12576, 15533, 8468, 20712, 3269, 12874, 30722,
    1267, 29286, 3352, 12479, 12715, 12430, 6739, 3324, 6848, 5432, 12392, 21156,
    6830, 9050, 6663, 5588, 5617, 12741, 12968, 29314, 20940, 6855, 8447, 12605,
    21334, 5588, 44034, 3301, 2119, 29518, 1759, 2116, 15659, 12929, 1759, 719,
    6667, 42473, 60068, 197540, 136620, 45102, 34984, 9121, 12735, 47331, 9498, 18101,
    4755, 9829, 17488, 24560, 45609, 55836, 132335, 134810, 17426, 38266, 45528, 58678,
    55644, 4134, 4812, 4837, 4808, 9808, 56040, 9929, 24445, 10099, 58453, 4538,
    23724, 23910, 17676, 2516, 2527, 2497, 9605, 4713, 2514, 7679, 4725, 23623,
    18126, 9370, 7506, 59103, 4766, 9318, 3786, 9644, 9316, 17858, 38091, 10036,
    17853, 9848, 7473, 3758, 9506, 4657, 132537, 4844, 45430, 4788, 4818, 10030,
    38466, 7713, 17974, 4761, 131090, 45727, 23679, 9299, 4775, 132199, 18139, 4787,
    45899, 7552, 131429, 4750, 7470, 9931, 45629, 23969, 132061, 45494, 1221, 4804,
    4739, 7545, 4826, 9268, 10148, 17408, 9790, 45671, 2764, 9500, 9790, 38022,
    17746, 45177, 24446, 8781, 25019, 35753, 39386, 5384, 15802, 8376, 50710, 12880,
    8781, 42298, 5416, 8452, 16135, 12978, 34984, 44217, 3225, 8529, 21050, 12400,
    1680, 378, 8551, 12849, 9116, 48832, 50463, 44709, 16116, 36992, 8452, 24863,
    37069, 37558, 36903, 37457, 327693, 37153, 16637, 29975, 3741, 5713, 37611, 36874,
    15399, 33771, 37349, 36925, 30985, 37148, 36873, 37282, 29465, 327786, 29571, 8513,
    6713, 36947, 327912, 328512, 37075, 2609, 24758, 7738, 26615, 16735, 4230, 28573,
    18881, 53013, 19353, 27699, 28283, 52320, 6057, 6535, 11172, 8151, 28403, 18734,
    13999, 11888, 28548, 7303, 10481, 7908, 27747, 11315, 19037, 6471, 7418, 27651,
    27678, 52468, 14080, 8048, 19429, 10299, 13489, 262186, 52458, 27839, 6147, 12252,
    6147, 577, 6327, 812, 852, 5769, 22652, 855, 803, 4589, 15290, 11260,
    3602, 14135, 16395, 577, 813, 6799, 11426, 14061, 36692, 19281, 30148, 13335,
    15169, 3356, 19551, 395747, 395954, 54994, 396356, 62597, 40027, 14618, 12222, 7342,
    26415, 30060, 16509, 9009, 136787, 174, 60068, 212238, 25369, 62563, 9370, 51167,
    53667, 202425, 394711, 62041, 60404, 28753, 60781, 16265, 16276, 24940, 58065, 49981,
    32475, 22612, 47583, 57976, 57469, 32590, 200990, 398355, 394639, 6507, 2914, 18978,
    6461, 8075, 132203, 45090, 32934, 11404, 3561, 19994, 16509, 136787, 38266, 36040,
    46489, 54113, 20940, 57695, 396982, 8075, 15169, 14618, 3598, 8068, 8069, 8070,
    8071, 8072, 8073, 8074, 8075, 36351, 19994, 26496, 46606, 33070, 27357, 12876,
    14340, 62931, 22612, 29169, 21321, 14061, 30633, 21859, 199524, 203214, 24961, 31898,
    209, 40676, 46562, 30081, 20738, 17501, 47541, 19905, 22509, 23394, 15169, 14618,
    14618, 13335, 16509, 14618, 16509, 14340, 62567, 701, 7018, 16509, 14618, 23640,
    16509, 14618, 396998, 14618, 16509, 46200, 14618, 16509, 16509, 14153, 16509, 14618,
    14340, 14593, 7065, 394141, 16974, 33363, 36236, 20055, 4839, 7029, 11963, 393581,
    54540, 13591, 25973, 395381, 18530, 11537, 87, 3701, 26, 217, 32, 13,
    14, 3, 73, 568, 2551, 14, 2152, 5765, 6395, 40, 20130, 5765,
    88, 23, 297, 7046, 589, 10455, 46, 71, 11, 3128, 786, 600,
    14, 12, 31, 20965, 680, 2200, 1103, 137, 1930, 2603, 513, 46606,
    19871, 8551, 29802, 46475, 133752, 63128, 29791, 7992, 36352, 174, 19624, 394256,
    209197, 51430, 43234, 62904, 49544, 47869, 35425, 51207, 9304, 133480, 328320, 50673,
    60117, 22394, 21928, 20057, 7018, 7922, 6167, 23479, 11260, 16591, 25899, 20001,
    5769, 812, 852, 16395, 45143, 9790, 133612, 2516, 17676, 2527, 9848, 12322,
    15557, 3215, 5410, 12430, 3352, 6739, 12576, 15533, 2529, 5089, 30722, 12874,
    21334, 6855, 44034, 12929, 8452, 16135, 12978, 3216, 8359, 31133, 12389, 45609,
    55836, 58678, 9808, 4837, 4134, 4766, 9318, 17858, 7713, 4761, 9299, 4775,
    4787, 45899, 7552, 45629, 132061, 4750, 4818, 4788, 38466, 17676, 4657, 132537,
    8781, 5384, 15802
  >>

\* The dict the literal evaluates to: one key per distinct ASN string.
known_asns == {str(known_asns_literal[i]) : i \in DOMAIN known_asns_literal}

\* ------------------------------------------------------- Python primitives
IsDict(v) == v.t = "dict"

\* bool(v): None, {} and [] are falsy.
Truthy(v) ==
  CASE v.t = "None" -> FALSE
    [] v.t = "dict" -> DOMAIN v.d # {}
    [] v.t = "list" -> Len(v.l) > 0
    [] OTHER -> TRUE

\* d.get(key, default) on the fields of a dict
Get(d, key, default) == IF key \in DOMAIN d THEN d[key] ELSE default

\* x or default, for a string-valued optional x (missing is None)
OrElse(d, key, default) ==
  IF key \in DOMAIN d /\ d[key] # EmptyStr THEN d[key] ELSE default

\* get_timestamp(): the clock reading, a millisecond count
get_timestamp(clock) == <<"ts", clock>>

\* ------------------------------------------------------------ transformers
\* The body of the loop for one network: the assignments it makes.
\* Mutant: an empty name is kept instead of replaced by AS<asn>.
PeeringdbEntry_keeps_empty_name(network) ==
  IF "asn" \notin DOMAIN network THEN EmptyDict
  ELSE LET asn == network.asn
           name == Get(network, "name", ASName(asn))
           info_type == OrElse(network, "info_type", EmptyStr)
       IN str(asn) :> [name |-> name,
                       type |-> IF info_type # EmptyStr THEN info_type
                                ELSE <<"Unknown">>]

PeeringdbEntry(network) ==
  IF "asn" \notin DOMAIN network THEN EmptyDict
  ELSE LET asn == network.asn
           name == OrElse(network, "name", ASName(asn))
           info_type == OrElse(network, "info_type", EmptyStr)
       IN str(asn) :> [name |-> name,
                       type |-> IF info_type # EmptyStr THEN info_type
                                ELSE <<"Unknown">>]

\* entries after the loop ran over data[lo..hi]: an assignment made later
\* in the list replaces an earlier one to the same key.  The range is
\* split in halves to keep the evaluation shallow.
RECURSIVE PeeringdbLoop(_, _, _)
PeeringdbLoop(data, lo, hi) ==
  IF lo > hi THEN EmptyDict
  ELSE IF lo = hi THEN PeeringdbEntry(data[lo])
  ELSE LET mid == (lo + hi) \div 2
       IN PeeringdbLoop(data, mid + 1, hi) @@ PeeringdbLoop(data, lo, mid)

\* Mutant: entry_count counts the records of the response, not the keys.
transform_peeringdb_data_counts_records(response, clock) ==
  LET data == Get(response.d, "data", <<>>)
      entries == PeeringdbLoop(data, 1, Len(data))
  IN [t |-> "dict",
      d |-> [version |-> <<"1.0.0">>,
             updated_at |-> get_timestamp(clock),
             source |-> <<"PeeringDB">>,
             entry_count |-> Len(data),
             entries |-> entries]]

\* response is a dict whose "data", when present, is a list of dicts
transform_peeringdb_data(response, clock) ==
  LET data == Get(response.d, "data", <<>>)
      entries == PeeringdbLoop(data, 1, Len(data))
  IN [t |-> "dict",
      d |-> [version |-> <<"1.0.0">>,
             updated_at |-> get_timestamp(clock),
             source |-> <<"PeeringDB">>,
             entry_count |-> Cardinality(DOMAIN entries),
             entries |-> entries]]

\* Mutant: the name is the bare number.
RipeEntry_bare_name(asn) ==
  IF asn.t = "None" THEN EmptyDict
  ELSE str(asn.v) :> [name |-> <<asn.v>>, type |-> <<"Unknown">>]

RipeEntry(asn) ==
  IF asn.t = "None" THEN EmptyDict
  ELSE str(asn.v) :> [name |-> ASName(asn.v), type |-> <<"Unknown">>]

RECURSIVE RipeLoop(_, _, _)
RipeLoop(asns, lo, hi) ==
  IF lo > hi THEN EmptyDict
  ELSE IF lo = hi THEN RipeEntry(asns[lo])
  ELSE LET mid == (lo + hi) \div 2
       IN RipeLoop(asns, mid + 1, hi) @@ RipeLoop(asns, lo, mid)

\* Mutant: entry_count counts the items of the list, not the keys.
transform_ripe_data_counts_items(response, clock) ==
  LET asns == Get(Get(response.d, "data", EmptyDict), "asns", <<>>)
      entries == RipeLoop(asns, 1, Len(asns))
  IN [t |-> "dict",
      d |-> [version |-> <<"1.0.0">>,
             updated_at |-> get_timestamp(clock),
             source |-> <<"RIPE NCC RIS">>,
             entry_count |-> Len(asns),
             entries |-> entries]]

\* Mutant: the snapshot is labelled with the log name of the source.
transform_ripe_data_log_label(response, clock) ==
  LET asns == Get(Get(response.d, "data", EmptyDict), "asns", <<>>)
      entries == RipeLoop(asns, 1, Len(asns))
  IN [t |-> "dict",
      d |-> [version |-> <<"1.0.0">>,
             updated_at |-> get_timestamp(clock),
             source |-> <<"RIPE RIS">>,
             entry_count |-> Cardinality(DOMAIN entries),
             entries |-> entries]]

\* response is a dict whose "data", when present, is a dict whose "asns",
\* when present, is a list
transform_ripe_data(response, clock) ==
  LET asns == Get(Get(response.d, "data", EmptyDict), "asns", <<>>)
      entries == RipeLoop(asns, 1, Len(asns))
  IN [t |-> "dict",
      d |-> [version |-> <<"1.0.0">>,
             updated_at |-> get_timestamp(clock),
             source |-> <<"RIPE NCC RIS">>,
             entry_count |-> Cardinality(DOMAIN entries),
             entries |-> entries]]

\* ------------------------------------------------------------------- merge
\* Mutant: the fallback's entries are applied on top of the primary's.
merge_databases_fallback_on_top(primary, fallback, clock) ==
  LET merged_entries == Get(fallback.d, "entries", EmptyDict)
                          @@ Get(primary.d, "entries", EmptyDict)
  IN [t |-> "dict",
      d |-> [version |-> <<"1.0.0">>,
             updated_at |-> get_timestamp(clock),
             source |-> Get(primary.d, "source", <<"Unknown">>)
                          \o <<" + ">>
                          \o Get(fallback.d, "source", <<"Unknown">>),
             entry_count |-> Cardinality(DOMAIN merged_entries),
             entries |-> merged_entries]]

\* Mutant: the label keeps only the first part of the primary's label.
merge_databases_label_reset(primary, fallback, clock) ==
  LET merged_entries == Get(primary.d, "entries", EmptyDict)
                          @@ Get(fallback.d, "entries", EmptyDict)
  IN [t |-> "dict",
      d |-> [version |-> <<"1.0.0">>,
             updated_at |-> get_timestamp(clock),
             source |-> SubSeq(Get(primary.d, "source", <<"Unknown">>), 1, 1)
                          \o <<" + ">>
                          \o Get(fallback.d, "source", <<"Unknown">>),
             entry_count |-> Cardinality(DOMAIN merged_entries),
             entries |-> merged_entries]]

\* Mutant: only the fallback's entries are kept.
merge_databases_drops_primary(primary, fallback, clock) ==
  LET merged_entries == Get(fallback.d, "entries", EmptyDict)
  IN [t |-> "dict",
      d |-> [version |-> <<"1.0.0">>,
             updated_at |-> get_timestamp(clock),
             source |-> Get(primary.d, "source", <<"Unknown">>)
                          \o <<" + ">>
                          \o Get(fallback.d, "source", <<"Unknown">>),
             entry_count |-> Cardinality(DOMAIN merged_entries),
             entries |-> merged_entries]]

\* Mutant: entry_count adds up the counts of the two inputs.
merge_databases_adds_counts(primary, fallback, clock) ==
  LET merged_entries == Get(primary.d, "entries", EmptyDict)
                          @@ Get(fallback.d, "entries", EmptyDict)
  IN [t |-> "dict",
      d |-> [version |-> <<"1.0.0">>,
             updated_at |-> get_timestamp(clock),
             source |-> Get(primary.d, "source", <<"Unknown">>)
                          \o <<" + ">>
                          \o Get(fallback.d, "source", <<"Unknown">>),
             entry_count |-> Get(primary.d, "entry_count", 0)
                               + Get(fallback.d, "entry_count", 0),
             entries |-> merged_entries]]

\* Mutant: the label names the fallback first.
merge_databases_label_reversed(primary, fallback, clock) ==
  LET merged_entries == Get(primary.d, "entries", EmptyDict)
                          @@ Get(fallback.d, "entries", EmptyDict)
  IN [t |-> "dict",
      d |-> [version |-> <<"1.0.0">>,
             updated_at |-> get_timestamp(clock),
             source |-> Get(fallback.d, "source", <<"Unknown">>)
                          \o <<" + ">>
                          \o Get(primary.d, "source", <<"Unknown">>),
             entry_count |-> Cardinality(DOMAIN merged_entries),
             entries |-> merged_entries]]

\* {**fallback.get("entries", {}), **primary.get("entries", {})}
merge_databases(primary, fallback, clock) ==
  LET merged_entries == Get(primary.d, "entries", EmptyDict)
                          @@ Get(fallback.d, "entries", EmptyDict)
  IN [t |-> "dict",
      d |-> [version |-> <<"1.0.0">>,
             updated_at |-> get_timestamp(clock),
             source |-> Get(primary.d, "source", <<"Unknown">>)
                          \o <<" + ">>
                          \o Get(fallback.d, "source", <<"Unknown">>),
             entry_count |-> Cardinality(DOMAIN merged_entries),
             entries |-> merged_entries]]

\* --------------------------------------------------------------- validator
\* found_asns: the keys of known_asns present in entries
found_asns(entries) == {asn \in known_asns : asn \in DOMAIN entries}

\* coverage_pct < 50, with coverage_pct = (found_count / total_known) * 100.
\* The float test agrees with the exact one: found_count / total_known is
\* exactly 0.5 when 2 * found_count = total_known and is at least
\* 1 / (2 * total_known) away from 0.5 otherwise.
CoverageTooLow(found_count, total_known) == found_count * 100 < 50 * total_known

\* Mutant: a database with exactly half of the known ASNs is rejected.
validate_database_above_half(database) ==
  LET entry_count == Get(database.d, "entry_count", 0)
      entries == Get(database.d, "entries", EmptyDict)
      total_known == Cardinality(known_asns)
      found_count == Cardinality(found_asns(entries))
  IN IF entry_count < MIN_EXPECTED_ENTRIES THEN FALSE
     ELSE ~CoverageTooLow(found_count - 1, total_known)

\* Mutant: a known ASN counts as found only under the name AS<asn>.
validate_database_checks_names(database) ==
  LET entry_count == Get(database.d, "entry_count", 0)
      entries == Get(database.d, "entries", EmptyDict)
      total_known == Cardinality(known_asns)
      found_count == Cardinality({asn \in found_asns(entries) :
                                    entries[asn].name = ASName(asn)})
  IN IF entry_count < MIN_EXPECTED_ENTRIES THEN FALSE
     ELSE ~CoverageTooLow(found_count, total_known)

validate_database(database) ==
  LET entry_count == Get(database.d, "entry_count", 0)
      entries == Get(database.d, "entries", EmptyDict)
      total_known == Cardinality(known_asns)
      found_count == Cardinality(found_asns(entries))
  IN IF entry_count < MIN_EXPECTED_ENTRIES THEN FALSE
     ELSE ~CoverageTooLow(found_count, total_known)

\* ------------------------------------------------------------ input menus
\* An ASN outside the reference table, one per index.
Filler(j) == 1000000 + j

KnownNet(i) ==
  [asn |-> known_asns_literal[i], name |-> <<"Net", i>>, info_type |-> <<"NSP">>]

FillNet(j) ==
  [asn |-> Filler(j), name |-> <<"Org", j>>, info_type |-> <<"Content">>]

\* Records that exercise the defaults: no asn, no name and no info_type,
\* empty name and info_type, and a repeat of the first reference ASN.
OddNets ==
  << [name |-> <<"NoAsn">>, info_type |-> <<"NSP">>],
     [asn |-> Filler(0)],
     [asn |-> Filler(-1), name |-> EmptyStr, info_type |-> EmptyStr],
     [asn |-> known_asns_literal[1], name |-> <<"Renamed">>] >>

\* The first m items of the reference literal, then n filler networks.
Networks(m, n, odd) ==
  [i \in 1..(m + n) |-> IF i <= m THEN KnownNet(i) ELSE FillNet(i - m)]
    \o (IF odd THEN OddNets ELSE <<>>)

PdbResponse(nets) == [t |-> "dict", d |-> [data |-> nets]]

AllKnown == Len(known_asns_literal)

Healthy == MIN_EXPECTED_ENTRIES + Surplus - Cardinality(known_asns)

PdbHealthy == PdbResponse(Networks(AllKnown, Healthy, TRUE))

PdbFewEntries == PdbResponse(Networks(AllKnown, 0, FALSE))

PdbLowCoverage == PdbResponse(Networks(100, MIN_EXPECTED_ENTRIES, FALSE))

WrongShape == [t |-> "list", l |-> <<[t |-> "int", v |-> 1]>>]

\* The JSON documents a 2xx answer of the primary API may carry.
PeeringdbResponses ==
  { PdbHealthy, PdbFewEntries, PdbLowCoverage,
    [t |-> "dict", d |-> EmptyDict],
    [t |-> "list", l |-> <<>>],
    WrongShape }

\* The first m reference ASNs, fillers lo..hi and, when asked, a null.
AsnList(m, lo, hi, withNull) ==
  [i \in 1..(m + (hi - lo + 1)) |->
     [t |-> "int",
      v |-> IF i <= m THEN known_asns_literal[i] ELSE Filler(lo + i - m - 1)]]
    \o (IF withNull THEN <<None>> ELSE <<>>)

RipeResponse(asns) ==
  [t |-> "dict", d |-> [data |-> [asns |-> asns], status |-> <<"ok">>]]

\* Healthy fallback answer: its fillers overlap those of PdbHealthy in part.
RipeHealthy == RipeResponse(AsnList(AllKnown, 101, 100 + Healthy, TRUE))

RipeFewEntries == RipeResponse(AsnList(50, 351, 380, FALSE))

RipeLowCoverage == RipeResponse(AsnList(100, 1, MIN_EXPECTED_ENTRIES, FALSE))

\* The JSON documents a 2xx answer of the fallback API may carry.
RipeResponses ==
  { RipeHealthy, RipeFewEntries, RipeLowCoverage,
    [t |-> "dict", d |-> [status |-> <<"error">>]],
    [t |-> "dict", d |-> EmptyDict],
    WrongShape }

\* Databases an earlier run wrote (at clock 0) ...
DbRich == transform_peeringdb_data(PdbHealthy, 0)

DbBare == transform_ripe_data(RipeResponse(AsnList(AllKnown, 1, Healthy, FALSE)), 0)

DbFewEntries == transform_peeringdb_data(PdbFewEntries, 0)

\* A database an earlier run wrote at strategy 2, merged into DbRich.
DbMerged == merge_databases(DbRich, transform_ripe_data(RipeFewEntries, 0), 0)

\* ... and files edited since: a count that overstates the entries, and an
\* object that carries entries only.
DbOvercount ==
  [DbFewEntries EXCEPT !.d.entry_count = MIN_EXPECTED_ENTRIES]

DbEntriesOnly ==
  [t |-> "dict", d |-> [entries |-> RipeLoop(AsnList(2, 1, 2, FALSE), 1, 4)]]

\* What OUTPUT_FILE may hold when main starts.  A "json" file holds the text
\* json.dump writes for doc, and json.load of that text gives doc back:
\* the documents have string keys and string or int leaves only.
FileStates ==
  { [kind |-> "missing"], [kind |-> "unreadable"],
    [kind |-> "bad_utf8"], [kind |-> "bad_json"] }
  \cup { [kind |-> "json", doc |-> doc] :
           doc \in { WrongShape, [t |-> "dict", d |-> EmptyDict],
                     DbRich, DbBare, DbMerged, DbFewEntries, DbOvercount,
                     DbEntriesOnly } }

\* ------------------------------------------- arguments of single functions
\* Databases handed to validate_database on its own: found of the known
\* ASNs and other keys up to total, under a given entry_count.
KnownPrefix(m) == {str(known_asns_literal[i]) : i \in 1..m}

FirstKnown(found) ==
  KnownPrefix(CHOOSE m \in 0..AllKnown : Cardinality(KnownPrefix(m)) = found)

Snapshot(keys, fields) ==
  [t |-> "dict",
   d |-> fields @@
         [entries |-> [asn \in keys |->
                         [name |-> ASName(asn), type |-> <<"Unknown">>]]]]

Candidate(found, total, fields) ==
  Snapshot(FirstKnown(found) \cup {Filler(j) : j \in 1..(total - found)},
           fields)

Half == Cardinality(known_asns) \div 2

FoundCounts == {0, Half - 1, Half, Half + 1, Cardinality(known_asns)}

Totals == {MIN_EXPECTED_ENTRIES - 1, MIN_EXPECTED_ENTRIES,
           MIN_EXPECTED_ENTRIES + Surplus}

\* entry_count as the transformers set it, one that disagrees with the
\* entries across the threshold, and none.
CountFields(total) ==
  { [entry_count |-> total],
    [entry_count |-> IF total < MIN_EXPECTED_ENTRIES
                     THEN MIN_EXPECTED_ENTRIES
                     ELSE MIN_EXPECTED_ENTRIES - 1],
    EmptyDict }

Candidates ==
  { Candidate(found, ft[2], ft[1]) :
      found \in FoundCounts,
      ft \in UNION { CountFields(total) \X {total} : total \in Totals } }

\* The same keys under the same entry_count with other records and fields.
Relabelled(database) ==
  [t |-> "dict",
   d |-> [f \in DOMAIN database.d \ {"entries"} |-> database.d[f]] @@
         [source |-> <<"edited">>,
          entries |-> [asn \in DOMAIN database.d.entries |->
                         [name |-> <<"renamed">>, type |-> <<"NSP">>]]]]

\* Snapshots handed to merge_databases on its own: what a transformer
\* builds from a short list, over NKeys keys and two names ...
MergeKeys == {100 * i : i \in 1..NKeys}

MergeNames == {<<"X">>, <<"Y">>}

MergeEntries ==
  UNION { [keys -> [name : MergeNames, type : {<<"Unknown">>}]] :
            keys \in SUBSET MergeKeys }

Built(entries, source) ==
  [t |-> "dict",
   d |-> [version |-> <<"1.0.0">>,
          updated_at |-> get_timestamp(0),
          source |-> source,
          entry_count |-> Cardinality(DOMAIN entries),
          entries |-> entries]]

Fallbacks ==
  { Built(entries, source) :
      entries \in MergeEntries,
      source \in {<<"PeeringDB">>, <<"RIPE NCC RIS">>} }

\* ... and, as the primary (main passes the loaded file), also files
\* edited since they were written.
Primaries ==
  Fallbacks
  \cup { [f EXCEPT !.d.entry_count = @ + 1] : f \in Fallbacks }
  \cup { [t |-> "dict", d |-> [entries |-> entries]] :
           entries \in MergeEntries }

\* Network records handed to transform_peeringdb_data on its own: asn, name
\* and info_type each missing (or null), and name and info_type empty.
NetworkRecords ==
  { [f \in fields |-> rec[f]] :
      fields \in SUBSET {"asn", "name", "info_type"},
      rec \in [asn : {1, 2},
               name : {EmptyStr, <<"N1">>},
               info_type : {EmptyStr, <<"NSP">>}] }

Lists(S) == UNION { [1..n -> S] : n \in 0..MaxLen }

\* Items handed to transform_ripe_data on its own: numbers and null.
RipeItems == { None, [t |-> "int", v |-> 1], [t |-> "int", v |-> 2] }

Calls ==
  { [fn |-> "validate_database", a |-> database, b |-> Relabelled(database),
     out |-> <<>>, done |-> FALSE] : database \in Candidates }
  \cup
  { [fn |-> "merge_databases", a |-> primary, b |-> fallback,
     out |-> <<>>, done |-> FALSE] :
      primary \in Primaries, fallback \in Fallbacks }
  \cup
  { [fn |-> "transform_peeringdb_data", a |-> PdbResponse(nets), b |-> None,
     out |-> <<>>, done |-> FALSE] : nets \in Lists(NetworkRecords) }
  \cup
  { [fn |-> "transform_ripe_data", a |-> RipeResponse(asns), b |-> None,
     out |-> <<>>, done |-> FALSE] : asns \in Lists(RipeItems) }

\* ------------------------------------------------------------------ state
VARIABLES
  pc,                 \* where main stands
  file,               \* what OUTPUT_FILE holds
  clock,              \* the wall clock read by get_timestamp
  existing_database,  \* main's locals
  peeringdb_data,
  ripe_data,
  asn_database,
  source_name,        \* fetch_with_retry's parameter and loop variable
  attempt,
  exit_code,          \* process exit status, -1 while running
  raised,             \* the exception that ended the run, "none" otherwise
  last_error,         \* the exception the latest attempt ended in and the
                      \* except clause handled, "none" if it succeeded
  log,                \* what the run did so far, in order
  call                \* a function applied on its own: arguments and result

vars ==
  << pc, file, clock, existing_database, peeringdb_data, ripe_data,
     asn_database, source_name, attempt, exit_code, raised, last_error,
     log, call >>

\* No function is being applied on its own.
NoCall == [fn |-> "none"]

Event(e, src, n) == [e |-> e, src |-> src, n |-> n]

\* An uncaught exception: the interpreter prints the traceback and exits 1.
Crash(exc) ==
  /\ pc' = "done"
  /\ raised' = exc
  /\ exit_code' = 1

\* ------------------------------------------------------------------ loader
\* The exception raised inside load_existing_database, "none" if none is.
LoadRaises(f) ==
  CASE f.kind = "missing" -> "none"
    [] f.kind = "unreadable" -> "IOError"
    [] f.kind = "bad_utf8" -> "UnicodeDecodeError"
    [] f.kind = "bad_json" -> "json.JSONDecodeError"
    [] f.kind = "json" -> IF IsDict(f.doc) THEN "none" ELSE "AttributeError"

\* except (json.JSONDecodeError, IOError)
LoadCaught == {"json.JSONDecodeError", "IOError"}

load_existing_database(f) ==
  LET exc == LoadRaises(f) IN
  IF f.kind = "missing" THEN [ret |-> None, raised |-> "none"]
  ELSE IF exc = "none" THEN [ret |-> f.doc, raised |-> "none"]
  ELSE IF exc \in LoadCaught THEN [ret |-> None, raised |-> "none"]
  ELSE [ret |-> None, raised |-> exc]

\* main: existing_database = load_existing_database(); fetch_peeringdb()
LoadExisting ==
  /\ pc = "load"
  /\ LET r == load_existing_database(file) IN
     /\ log' = Append(log, Event("load", "file", 0))
     /\ IF r.raised # "none"
        THEN /\ Crash(r.raised)
             /\ UNCHANGED << existing_database, source_name, attempt >>
        ELSE /\ existing_database' = r.ret
             /\ pc' = "request"
             /\ source_name' = "PeeringDB"
             /\ attempt' = 1
             /\ UNCHANGED << exit_code, raised >>
  /\ UNCHANGED << file, clock, peeringdb_data, ripe_data, asn_database,
                  last_error >>
  /\ UNCHANGED call

\* ------------------------------------------------------------------- fetch
\* The exceptions one attempt can end in: a timeout, a connection error, a
\* non-2xx status (raise_for_status) and a 2xx body that is not JSON
\* (response.json raises requests.exceptions.JSONDecodeError).
AttemptErrors ==
  { "requests.Timeout", "requests.ConnectionError", "requests.HTTPError",
    "requests.JSONDecodeError" }

\* Mutant: the handlers miss the exception response.json raises.
RequestException_without_json ==
  { "requests.Timeout", "requests.ConnectionError", "requests.HTTPError" }

\* except requests.exceptions.Timeout / except RequestException: all four
\* are subclasses of RequestException.
RequestException ==
  { "requests.Timeout", "requests.ConnectionError", "requests.HTTPError",
    "requests.JSONDecodeError" }

Url(src) == IF src = "PeeringDB" THEN PEERINGDB_API ELSE RIPE_RIS_ASNS_API

Responses(src) == IF src = "PeeringDB" THEN PeeringdbResponses ELSE RipeResponses

\* fetch_with_retry returns data to main.
Return(data) ==
  /\ IF source_name = "PeeringDB"
     THEN /\ peeringdb_data' = data
          /\ pc' = "tier1"
          /\ UNCHANGED ripe_data
     ELSE /\ ripe_data' = data
          /\ pc' = "tier2"
          /\ UNCHANGED peeringdb_data
  /\ UNCHANGED << attempt, exit_code, raised >>

\* Mutant: a successful attempt does not leave the loop.
RequestOk_keeps_trying ==
  /\ pc = "request"
  /\ \E doc \in Responses(source_name) :
       /\ log' = Append(log, Event("request", source_name, attempt))
       /\ IF attempt < MAX_RETRIES
          THEN /\ pc' = "sleep"
               /\ UNCHANGED << peeringdb_data, ripe_data, attempt,
                               exit_code, raised >>
          ELSE Return(doc)
  /\ last_error' = "none"
  /\ UNCHANGED << file, clock, existing_database, asn_database, source_name >>
  /\ UNCHANGED call

\* One pass of the try block: requests.get, raise_for_status, json.
RequestOk ==
  /\ pc = "request"
  /\ \E doc \in Responses(source_name) :
       /\ log' = Append(log, Event("request", source_name, attempt))
       /\ Return(doc)
  /\ last_error' = "none"
  /\ UNCHANGED << file, clock, existing_database, asn_database, source_name >>
  /\ UNCHANGED call

\* Mutant: a failed last attempt is followed by one more sleep and attempt.
RequestFails_one_more ==
  /\ pc = "request"
  /\ \E exc \in AttemptErrors :
       /\ log' = Append(log, Event("request", source_name, attempt))
       /\ IF exc \notin RequestException
          THEN /\ Crash(exc)
               /\ UNCHANGED << peeringdb_data, ripe_data, attempt >>
          ELSE IF attempt <= MAX_RETRIES
          THEN /\ pc' = "sleep"
               /\ UNCHANGED << peeringdb_data, ripe_data, attempt,
                               exit_code, raised >>
          ELSE Return(None)
       /\ last_error' = IF exc \in RequestException THEN exc ELSE last_error
  /\ UNCHANGED << file, clock, existing_database, asn_database, source_name >>
  /\ UNCHANGED call

RequestFails ==
  /\ pc = "request"
  /\ \E exc \in AttemptErrors :
       /\ log' = Append(log, Event("request", source_name, attempt))
       /\ IF exc \notin RequestException
          THEN /\ Crash(exc)
               /\ UNCHANGED << peeringdb_data, ripe_data, attempt >>
          ELSE IF attempt < MAX_RETRIES
          THEN /\ pc' = "sleep"
               /\ UNCHANGED << peeringdb_data, ripe_data, attempt,
                               exit_code, raised >>
          ELSE Return(None)
       /\ last_error' = IF exc \in RequestException THEN exc ELSE last_error
  /\ UNCHANGED << file, clock, existing_database, asn_database, source_name >>
  /\ UNCHANGED call

\* Mutant: the exponent is attempt instead of attempt - 1.
wait_time_off_by_one(a) == RETRY_DELAY_SECONDS * (2 ^ a)

\* wait_time = RETRY_DELAY_SECONDS * (2 ** (attempt - 1))
wait_time(a) == RETRY_DELAY_SECONDS * (2 ^ (a - 1))

Sleep ==
  /\ pc = "sleep"
  /\ log' = Append(log, Event("sleep", source_name, wait_time(attempt)))
  /\ attempt' = attempt + 1
  /\ pc' = "request"
  /\ UNCHANGED << file, clock, existing_database, peeringdb_data, ripe_data,
                  asn_database, source_name, exit_code, raised, last_error >>
  /\ UNCHANGED call

\* ------------------------------------------------------------------- tiers
Verdict(ok) == IF ok THEN 1 ELSE 0

\* Mutant: strategy 1 tests "is not None" instead of truthiness.
Tier1_tests_none ==
  /\ pc = "tier1"
  /\ IF peeringdb_data = None
     THEN /\ pc' = "request"
          /\ source_name' = "RIPE RIS"
          /\ attempt' = 1
          /\ UNCHANGED << asn_database, clock, exit_code, raised, log >>
     ELSE IF ~IsDict(peeringdb_data)
     THEN /\ Crash("AttributeError")
          /\ UNCHANGED << asn_database, clock, source_name, attempt, log >>
     ELSE LET db == transform_peeringdb_data(peeringdb_data, clock)
              ok == validate_database(db)
          IN /\ clock' = clock + 1
             /\ log' = Append(log, Event("validate", "tier1", Verdict(ok)))
             /\ asn_database' = IF ok THEN db ELSE None
             /\ IF ok
                THEN /\ pc' = "write"
                     /\ UNCHANGED << source_name, attempt >>
                ELSE /\ pc' = "request"
                     /\ source_name' = "RIPE RIS"
                     /\ attempt' = 1
             /\ UNCHANGED << exit_code, raised >>
  /\ UNCHANGED << file, existing_database, peeringdb_data, ripe_data,
                  last_error, call >>

\* Mutant: a snapshot that failed validation is not reset to None.
Tier1_keeps_failed ==
  /\ pc = "tier1"
  /\ IF ~Truthy(peeringdb_data)
     THEN /\ pc' = "request"
          /\ source_name' = "RIPE RIS"
          /\ attempt' = 1
          /\ UNCHANGED << asn_database, clock, exit_code, raised, log >>
     ELSE IF ~IsDict(peeringdb_data)
     THEN /\ Crash("AttributeError")
          /\ UNCHANGED << asn_database, clock, source_name, attempt, log >>
     ELSE LET db == transform_peeringdb_data(peeringdb_data, clock)
              ok == validate_database(db)
          IN /\ clock' = clock + 1
             /\ log' = Append(log, Event("validate", "tier1", Verdict(ok)))
             /\ asn_database' = db
             /\ pc' = "write"
             /\ UNCHANGED << source_name, attempt, exit_code, raised >>
  /\ UNCHANGED << file, existing_database, peeringdb_data, ripe_data,
                  last_error, call >>

\* Mutant: strategy 2 is entered whether or not strategy 1 accepted.
Tier1_always_falls_back ==
  /\ pc = "tier1"
  /\ IF ~Truthy(peeringdb_data)
     THEN UNCHANGED << asn_database, clock, exit_code, raised, log >>
     ELSE LET db == transform_peeringdb_data(peeringdb_data, clock)
              ok == IsDict(peeringdb_data) /\ validate_database(db)
          IN /\ clock' = clock + 1
             /\ log' = Append(log, Event("validate", "tier1", Verdict(ok)))
             /\ asn_database' = IF ok THEN db ELSE None
             /\ UNCHANGED << exit_code, raised >>
  /\ pc' = "request"
  /\ source_name' = "RIPE RIS"
  /\ attempt' = 1
  /\ UNCHANGED << file, existing_database, peeringdb_data, ripe_data,
                  last_error >>
  /\ UNCHANGED call

\* Strategy 1, up to the test that opens strategy 2.
Tier1 ==
  /\ pc = "tier1"
  /\ IF ~Truthy(peeringdb_data)
     THEN /\ pc' = "request"
          /\ source_name' = "RIPE RIS"
          /\ attempt' = 1
          /\ UNCHANGED << asn_database, clock, exit_code, raised, log >>
     ELSE IF ~IsDict(peeringdb_data)
     THEN /\ Crash("AttributeError")
          /\ UNCHANGED << asn_database, clock, source_name, attempt, log >>
     ELSE LET db == transform_peeringdb_data(peeringdb_data, clock)
              ok == validate_database(db)
          IN /\ clock' = clock + 1
             /\ log' = Append(log, Event("validate", "tier1", Verdict(ok)))
             /\ asn_database' = IF ok THEN db ELSE None
             /\ IF ok
                THEN /\ pc' = "write"
                     /\ UNCHANGED << source_name, attempt >>
                ELSE /\ pc' = "request"
                     /\ source_name' = "RIPE RIS"
                     /\ attempt' = 1
             /\ UNCHANGED << exit_code, raised >>
  /\ UNCHANGED << file, existing_database, peeringdb_data, ripe_data,
                  last_error >>
  /\ UNCHANGED call

\* Mutant: the fallback snapshot is never merged with the loaded database.
Tier2_never_merges ==
  /\ pc = "tier2"
  /\ IF ~Truthy(ripe_data)
     THEN /\ pc' = "tier3"
          /\ UNCHANGED << asn_database, clock, exit_code, raised, log >>
     ELSE IF ~IsDict(ripe_data)
     THEN /\ Crash("AttributeError")
          /\ UNCHANGED << asn_database, clock, log >>
     ELSE LET db == transform_ripe_data(ripe_data, clock)
              ok == validate_database(db)
          IN /\ clock' = clock + 1
             /\ log' = Append(log, Event("validate", "tier2", Verdict(ok)))
             /\ asn_database' = IF ok THEN db ELSE None
             /\ pc' = IF ok THEN "write" ELSE "tier3"
             /\ UNCHANGED << exit_code, raised >>
  /\ UNCHANGED << file, existing_database, peeringdb_data, ripe_data,
                  source_name, attempt, last_error >>
  /\ UNCHANGED call

\* Mutant: the fallback snapshot goes to the write without validation.
Tier2_skips_validation ==
  /\ pc = "tier2"
  /\ IF ~Truthy(ripe_data)
     THEN /\ pc' = "tier3"
          /\ UNCHANGED << asn_database, clock, exit_code, raised, log >>
     ELSE IF ~IsDict(ripe_data)
     THEN /\ Crash("AttributeError")
          /\ UNCHANGED << asn_database, clock, log >>
     ELSE LET fresh == transform_ripe_data(ripe_data, clock)
              merge == Truthy(existing_database)
              db == IF merge
                    THEN merge_databases(existing_database, fresh, clock + 1)
                    ELSE fresh
          IN /\ clock' = IF merge THEN clock + 2 ELSE clock + 1
             /\ log' = log
                  \o (IF merge THEN <<Event("merge", "tier2", 0)>> ELSE <<>>)
             /\ asn_database' = db
             /\ pc' = "write"
             /\ UNCHANGED << exit_code, raised >>
  /\ UNCHANGED << file, existing_database, peeringdb_data, ripe_data,
                  source_name, attempt, last_error >>
  /\ UNCHANGED call

\* Mutant: the merge is made in place, in the loaded database.
Tier2_merges_in_place ==
  /\ pc = "tier2"
  /\ IF ~Truthy(ripe_data)
     THEN /\ pc' = "tier3"
          /\ UNCHANGED << asn_database, existing_database, clock, exit_code,
                          raised, log >>
     ELSE IF ~IsDict(ripe_data)
     THEN /\ Crash("AttributeError")
          /\ UNCHANGED << asn_database, existing_database, clock, log >>
     ELSE LET fresh == transform_ripe_data(ripe_data, clock)
              merge == Truthy(existing_database)
              db == IF merge
                    THEN merge_databases(existing_database, fresh, clock + 1)
                    ELSE fresh
              ok == validate_database(db)
          IN /\ clock' = IF merge THEN clock + 2 ELSE clock + 1
             /\ log' = log
                  \o (IF merge THEN <<Event("merge", "tier2", 0)>> ELSE <<>>)
                  \o <<Event("validate", "tier2", Verdict(ok))>>
             /\ existing_database' = IF merge THEN db ELSE existing_database
             /\ asn_database' = IF ok THEN db ELSE None
             /\ pc' = IF ok THEN "write" ELSE "tier3"
             /\ UNCHANGED << exit_code, raised >>
  /\ UNCHANGED << file, peeringdb_data, ripe_data, source_name, attempt,
                  last_error >>
  /\ UNCHANGED call

\* Strategy 2, after fetch_ripe_ris returned.
Tier2 ==
  /\ pc = "tier2"
  /\ IF ~Truthy(ripe_data)
     THEN /\ pc' = "tier3"
          /\ UNCHANGED << asn_database, clock, exit_code, raised, log >>
     ELSE IF ~IsDict(ripe_data)
     THEN /\ Crash("AttributeError")
          /\ UNCHANGED << asn_database, clock, log >>
     ELSE LET fresh == transform_ripe_data(ripe_data, clock)
              merge == Truthy(existing_database)
              db == IF merge
                    THEN merge_databases(existing_database, fresh, clock + 1)
                    ELSE fresh
              ok == validate_database(db)
          IN /\ clock' = IF merge THEN clock + 2 ELSE clock + 1
             /\ log' = log
                  \o (IF merge THEN <<Event("merge", "tier2", 0)>> ELSE <<>>)
                  \o <<Event("validate", "tier2", Verdict(ok))>>
             /\ asn_database' = IF ok THEN db ELSE None
             /\ pc' = IF ok THEN "write" ELSE "tier3"
             /\ UNCHANGED << exit_code, raised >>
  /\ UNCHANGED << file, existing_database, peeringdb_data, ripe_data,
                  source_name, attempt, last_error >>
  /\ UNCHANGED call

\* Mutant: strategy 3 reads the file again instead of using the value
\* loaded at the start.
Tier3_reloads ==
  /\ pc = "tier3"
  /\ LET reloaded == load_existing_database(file).ret IN
     IF Truthy(reloaded)
     THEN LET ok == validate_database(reloaded) IN
          /\ log' = log \o << Event("load", "file", 0),
                              Event("validate", "tier3", Verdict(ok)) >>
          /\ exit_code' = IF ok THEN 0 ELSE 1
     ELSE /\ exit_code' = 1
          /\ log' = Append(log, Event("load", "file", 0))
  /\ pc' = "done"
  /\ UNCHANGED << file, clock, existing_database, peeringdb_data, ripe_data,
                  asn_database, source_name, attempt, raised, last_error >>
  /\ UNCHANGED call

\* Mutant: the stale database is written back instead of left alone.
Tier3_rewrites ==
  /\ pc = "tier3"
  /\ IF Truthy(existing_database) /\ validate_database(existing_database)
     THEN /\ log' = Append(log, Event("validate", "tier3", 1))
          /\ asn_database' = existing_database
          /\ pc' = "write"
          /\ UNCHANGED exit_code
     ELSE /\ exit_code' = 1
          /\ pc' = "done"
          /\ UNCHANGED << log, asn_database >>
  /\ UNCHANGED << file, clock, existing_database, peeringdb_data, ripe_data,
                  source_name, attempt, raised, last_error >>
  /\ UNCHANGED call

\* Strategy 3: keep the existing file or give up.
Tier3 ==
  /\ pc = "tier3"
  /\ IF Truthy(existing_database)
     THEN LET ok == validate_database(existing_database) IN
          /\ log' = Append(log, Event("validate", "tier3", Verdict(ok)))
          /\ exit_code' = IF ok THEN 0 ELSE 1
     ELSE /\ exit_code' = 1
          /\ UNCHANGED log
  /\ pc' = "done"
  /\ UNCHANGED << file, clock, existing_database, peeringdb_data, ripe_data,
                  asn_database, source_name, attempt, raised, last_error >>
  /\ UNCHANGED call

\* open(OUTPUT_FILE, "w"); json.dump(asn_database, ...); return from main
Write ==
  /\ pc = "write"
  /\ file' = [kind |-> "json", doc |-> asn_database]
  /\ log' = Append(log, Event("write", "file", 0))
  /\ exit_code' = 0
  /\ pc' = "done"
  /\ UNCHANGED << clock, existing_database, peeringdb_data, ripe_data,
                  asn_database, source_name, attempt, raised, last_error >>
  /\ UNCHANGED call

\* ----------------------------------------------------------- specification
Init ==
  /\ pc = "load"
  /\ file \in FileStates
  /\ clock = 1
  /\ existing_database = None
  /\ peeringdb_data = None
  /\ ripe_data = None
  /\ asn_database = None
  /\ source_name = "none"
  /\ attempt = 0
  /\ exit_code = -1
  /\ raised = "none"
  /\ last_error = "none"
  /\ log = <<>>
  /\ call = NoCall

Next ==
  \/ LoadExisting
  \/ RequestOk
  \/ RequestFails
  \/ Sleep
  \/ Tier1
  \/ Tier2
  \/ Tier3
  \/ Write

Spec == Init /\ [][Next]_vars

\* The interpreter keeps running main, and every HTTP request returns or
\* times out (requests.get is called with timeout=120): while main has a
\* statement left it eventually moves on from where it stands.  Every step
\* of Next changes pc, and one is possible exactly when pc is not "done".
MovesOn ==
  /\ pc # "done"
  /\ pc' \in {"request", "sleep", "tier1", "tier2", "tier3", "write", "done"}
             \ {pc}

LiveSpec == Init /\ [][Next]_vars /\ WF_pc(MovesOn)

\* ------------------------------------------- functions applied on their own
\* validate_database applied to a database and to its relabelled twin
ApplyValidate ==
  /\ pc = "apply"
  /\ call.fn = "validate_database"
  /\ ~call.done
  /\ call' = [call EXCEPT !.out = << validate_database(call.a),
                                     validate_database(call.b) >>,
                          !.done = TRUE]
  /\ UNCHANGED << pc, file, clock, existing_database, peeringdb_data,
                  ripe_data, asn_database, source_name, attempt, exit_code,
                  raised, last_error, log >>

\* merge_databases applied to a primary and a fallback
ApplyMerge ==
  /\ pc = "apply"
  /\ call.fn = "merge_databases"
  /\ ~call.done
  /\ call' = [call EXCEPT !.out = merge_databases(call.a, call.b, clock),
                          !.done = TRUE]
  /\ clock' = clock + 1
  /\ UNCHANGED << pc, file, existing_database, peeringdb_data, ripe_data,
                  asn_database, source_name, attempt, exit_code, raised,
                  last_error, log >>

\* transform_peeringdb_data applied to a response
ApplyPeeringdb ==
  /\ pc = "apply"
  /\ call.fn = "transform_peeringdb_data"
  /\ ~call.done
  /\ call' = [call EXCEPT !.out = transform_peeringdb_data(call.a, clock),
                          !.done = TRUE]
  /\ clock' = clock + 1
  /\ UNCHANGED << pc, file, existing_database, peeringdb_data, ripe_data,
                  asn_database, source_name, attempt, exit_code, raised,
                  last_error, log >>

\* transform_ripe_data applied to a response
ApplyRipe ==
  /\ pc = "apply"
  /\ call.fn = "transform_ripe_data"
  /\ ~call.done
  /\ call' = [call EXCEPT !.out = transform_ripe_data(call.a, clock),
                          !.done = TRUE]
  /\ clock' = clock + 1
  /\ UNCHANGED << pc, file, existing_database, peeringdb_data, ripe_data,
                  asn_database, source_name, attempt, exit_code, raised,
                  last_error, log >>

InitPure ==
  /\ pc = "apply"
  /\ file = [kind |-> "missing"]
  /\ clock = 1
  /\ existing_database = None
  /\ peeringdb_data = None
  /\ ripe_data = None
  /\ asn_database = None
  /\ source_name = "none"
  /\ attempt = 0
  /\ exit_code = -1
  /\ raised = "none"
  /\ last_error = "none"
  /\ log = << >>
  /\ call \in Calls

NextPure == ApplyValidate \/ ApplyMerge \/ ApplyPeeringdb \/ ApplyRipe

SpecPure == InitPure /\ [][NextPure]_vars

TypeOK ==
  /\ pc \in {"load", "request", "sleep", "tier1", "tier2", "tier3", "write", "done"}
  /\ exit_code \in {-1, 0, 1}
  /\ attempt \in 0..MAX_RETRIES

\* ------------------------------------------------------ reading the log
Happened(e, src) == \E i \in DOMAIN log : log[i].e = e /\ log[i].src = src

HappenedWith(e, src, n) == \E i \in DOMAIN log : log[i] = Event(e, src, n)

Count(e, src) == Cardinality({i \in DOMAIN log : log[i].e = e /\ log[i].src = src})

\* The seconds slept while fetching src, in order.
Sleeps(src) ==
  LET IsSleep(ev) == ev.e = "sleep" /\ ev.src = src
      evs == SelectSeq(log, IsSleep)
  IN [i \in DOMAIN evs |-> evs[i].n]

RECURSIVE Sum(_)
Sum(seq) == IF seq = <<>> THEN 0 ELSE Head(seq) + Sum(Tail(seq))

Done == pc = "done"

Wrote == Happened("write", "file")

ExistingAvailable == Truthy(existing_database)

ExistingValid == ExistingAvailable /\ validate_database(existing_database)

\* The four ways a run is meant to end.
Tier1Accept == HappenedWith("validate", "tier1", 1) /\ Wrote /\ exit_code = 0

Tier2Accept == HappenedWith("validate", "tier2", 1) /\ Wrote /\ exit_code = 0

Tier3NoOp == raised = "none" /\ exit_code = 0 /\ ~Wrote

\* sys.exit(1) at the end of strategy 3
TotalFailure ==
  /\ raised = "none"
  /\ exit_code = 1
  /\ ~Wrote
  /\ ~HappenedWith("validate", "tier1", 1)
  /\ ~HappenedWith("validate", "tier2", 1)
  /\ ~HappenedWith("validate", "tier3", 1)

Outcomes == << Tier1Accept, Tier2Accept, Tier3NoOp, TotalFailure >>

\* ------------------------------------------------------------------ claims

\* C1: every finished run ended in exactly one of tier-1 accept, tier-2
\* accept, tier-3 no-op success and total failure.
C1_ExactlyOneOutcome ==
  Done => Cardinality({i \in 1..4 : Outcomes[i]}) = 1

\* C2: a finished run has exit status 1 exactly when no tier produced a
\* valid database: neither tier 1 nor tier 2 validated a snapshot and the
\* existing database is absent or fails validate_database.
C2_ExitOneIffNoValidTier ==
  Done =>
    (exit_code = 1 <=>
       /\ ~HappenedWith("validate", "tier1", 1)
       /\ ~HappenedWith("validate", "tier2", 1)
       /\ ~ExistingValid)

\* Tier 1 did not accept: its fetch gave nothing or its snapshot failed
\* validation.  Likewise tier 2, once the fallback was asked.
Tier1Rejected ==
  /\ Happened("request", "PeeringDB")
  /\ pc \notin {"request", "sleep", "tier1"} \/ source_name = "RIPE RIS"
  /\ ~Truthy(peeringdb_data) \/ HappenedWith("validate", "tier1", 0)

Tier2Rejected ==
  /\ Happened("request", "RIPE RIS")
  /\ pc \in {"tier3", "done"}
  /\ ~Truthy(ripe_data) \/ HappenedWith("validate", "tier2", 0)

\* C3: when neither tier 1 nor tier 2 accepted and the existing database
\* loaded at start passes validate_database, the run exits 0, no write to
\* the output file happened and the file still holds the loaded database.
C3_StaleRetention ==
  (Done /\ Tier1Rejected /\ Tier2Rejected /\ ExistingValid) =>
    /\ exit_code = 0
    /\ raised = "none"
    /\ ~Wrote
    /\ file = [kind |-> "json", doc |-> existing_database]

C3_Witness ==
  /\ Done /\ Tier1Rejected /\ Tier2Rejected /\ ExistingValid
  /\ peeringdb_data = None
  /\ ripe_data = None

\* The distinct ASNs of a primary-API document, read off the document.
NetworkAsns(response) ==
  LET data == Get(response.d, "data", <<>>) IN
  {data[i].asn : i \in {j \in DOMAIN data : "asn" \in DOMAIN data[j]}}

\* At least MIN_EXPECTED_ENTRIES distinct ASNs, at least half of the
\* reference ASNs among them.
Sufficient(asns) ==
  /\ Cardinality(asns) >= MIN_EXPECTED_ENTRIES
  /\ 2 * Cardinality({a \in asns : str(a) \in known_asns})
       >= Cardinality(known_asns)

\* C4: a primary-API response with at least 1000 distinct ASNs covering at
\* least half of the reference table makes main write the output file
\* exactly once, with source "PeeringDB" and entry_count equal to the
\* number of keys of entries, whatever the existing database was.
C4_PrimaryAccepted ==
  (Done /\ IsDict(peeringdb_data) /\ Sufficient(NetworkAsns(peeringdb_data))) =>
    /\ Count("write", "file") = 1
    /\ exit_code = 0
    /\ file.kind = "json"
    /\ file.doc.d.source = <<"PeeringDB">>
    /\ file.doc.d.entry_count = Cardinality(DOMAIN file.doc.d.entries)
    /\ DOMAIN file.doc.d.entries =
         {str(a) : a \in NetworkAsns(peeringdb_data)}

C4_Witness ==
  /\ Done /\ IsDict(peeringdb_data) /\ Sufficient(NetworkAsns(peeringdb_data))
  /\ ExistingValid
  /\ Count("request", "PeeringDB") = 2

\* C5: once the primary snapshot passed validation, no request goes to the
\* fallback API, no merge is performed, the existing database is not
\* validated, and the run goes straight to the write.
C5_Tier1SkipsTheRest ==
  HappenedWith("validate", "tier1", 1) =>
    /\ ~Happened("request", "RIPE RIS")
    /\ ~Happened("merge", "tier2")
    /\ ~Happened("validate", "tier2")
    /\ ~Happened("validate", "tier3")
    /\ pc \in {"write", "done"}
    /\ pc = "done" => (Wrote /\ log[Len(log) - 1].e = "validate")

C5_Witness ==
  /\ Done
  /\ HappenedWith("validate", "tier1", 1)
  /\ ExistingAvailable

\* The non-null ASN numbers of a fallback-API document, read off the
\* document.
RipeAsnNumbers(response) ==
  LET asns == Get(Get(response.d, "data", EmptyDict), "asns", <<>>) IN
  {asns[i].v : i \in {j \in DOMAIN asns : asns[j].t = "int"}}

\* Tier 2 merged the loaded database with the fallback data and accepted
\* the result.
MergedAccepted ==
  /\ Happened("merge", "tier2")
  /\ HappenedWith("validate", "tier2", 1)

ExistingEntries == Get(existing_database.d, "entries", EmptyDict)

\* Every key of the loaded database keeps the loaded record, and every
\* other key is a fallback ASN under its synthesized name.
MergeKeepsExisting ==
  LET entries == asn_database.d.entries
      asns == RipeAsnNumbers(ripe_data)
  IN /\ DOMAIN entries = DOMAIN ExistingEntries \cup {str(a) : a \in asns}
     /\ \A k \in DOMAIN ExistingEntries : entries[k] = ExistingEntries[k]
     /\ \A a \in asns :
          str(a) \notin DOMAIN ExistingEntries =>
            entries[str(a)] = [name |-> ASName(a), type |-> <<"Unknown">>]

\* No key of the loaded database carries a synthesized name.
OnlyNewKeysSynthesized ==
  \A a \in RipeAsnNumbers(ripe_data) :
    asn_database.d.entries[str(a)].name = ASName(a) =>
      str(a) \notin DOMAIN ExistingEntries

\* Tier 2 validated a snapshot while a non-empty existing database was
\* loaded: the merge came right before the validation.
MergeBeforeValidate ==
  \A i \in DOMAIN log :
    (log[i].e = "validate" /\ log[i].src = "tier2") =>
      (i > 1 /\ log[i - 1] = Event("merge", "tier2", 0))

\* C6 as stated: with a fallback document and an existing database loaded,
\* tier 2 validates and writes the merge; every ASN of the existing
\* database keeps its record and only ASNs absent from it carry the
\* synthesized "AS<number>" name.
C6_MergeOnlyNewSynthesized ==
  /\ (Happened("validate", "tier2") /\ ExistingAvailable) => MergeBeforeValidate
  /\ MergedAccepted => (MergeKeepsExisting /\ OnlyNewKeysSynthesized)

\* C6 amended: with a fallback document and a non-empty existing database
\* loaded, tier 2 validates and writes the merge; every ASN of the existing
\* database keeps its record, whatever its name, and every ASN absent from
\* it carries the synthesized "AS<number>" name.
C6_MergeKeepsExisting ==
  /\ (Happened("validate", "tier2") /\ ExistingAvailable) => MergeBeforeValidate
  /\ MergedAccepted =>
       /\ MergeKeepsExisting
       /\ asn_database.d.source =
            Get(existing_database.d, "source", <<"Unknown">>)
              \o <<" + ", "RIPE NCC RIS">>
       /\ Done => file = [kind |-> "json", doc |-> asn_database]

C6_Witness ==
  /\ Done
  /\ MergedAccepted
  /\ \E a \in RipeAsnNumbers(ripe_data) :
       /\ str(a) \in DOMAIN ExistingEntries
       /\ ExistingEntries[str(a)].name # ASName(a)
  /\ \E a \in RipeAsnNumbers(ripe_data) : str(a) \notin DOMAIN ExistingEntries
  /\ \E k \in DOMAIN ExistingEntries : k \notin RipeAsnNumbers(ripe_data)

\* The primary API was unreachable: three attempts, the last one failed too.
PrimaryUnreachable ==
  /\ Count("request", "PeeringDB") = MAX_RETRIES
  /\ peeringdb_data = None

\* C7: with no existing database, the primary API unreachable and a
\* fallback answer of N >= 1000 distinct ASNs covering at least half of the
\* reference table, the file is written with source "RIPE NCC RIS" and
\* entry_count N, unmerged, every name of the form "AS<number>".
C7_FallbackAlone ==
  ( /\ Done
    /\ raised = "none"
    /\ ~ExistingAvailable
    /\ PrimaryUnreachable
    /\ IsDict(ripe_data)
    /\ Sufficient(RipeAsnNumbers(ripe_data)) ) =>
    LET asns == RipeAsnNumbers(ripe_data) IN
    /\ Count("write", "file") = 1
    /\ exit_code = 0
    /\ ~Happened("merge", "tier2")
    /\ file.kind = "json"
    /\ file.doc.d.source = <<"RIPE NCC RIS">>
    /\ file.doc.d.entry_count = Cardinality(asns)
    /\ DOMAIN file.doc.d.entries = {str(a) : a \in asns}
    /\ \A a \in asns : file.doc.d.entries[str(a)].name = ASName(a)

C7_Witness ==
  /\ Done
  /\ raised = "none"
  /\ existing_database = None
  /\ PrimaryUnreachable
  /\ IsDict(ripe_data)
  /\ Sufficient(RipeAsnNumbers(ripe_data))

\* fetch_with_retry just returned the empty result for src.
GaveUp(src) ==
  /\ pc = IF src = "PeeringDB" THEN "tier1" ELSE "tier2"
  /\ last_error # "none"

\* C8: when all three attempts fail, the sleeps are 10 s after attempt 1
\* and 20 s after attempt 2, 30 s in total, none follows the third attempt,
\* the result is empty, and after the primary source gave up the run goes
\* on to the fallback tier.
C8_BackoffThenFallback ==
  /\ \A src \in {"PeeringDB", "RIPE RIS"} :
       GaveUp(src) =>
         /\ Count("request", src) = 3
         /\ Sleeps(src) = <<10, 20>>
         /\ Sum(Sleeps(src)) = 30
         /\ log[Len(log)] = Event("request", src, 3)
         /\ (IF src = "PeeringDB" THEN peeringdb_data ELSE ripe_data) = None
  /\ (PrimaryUnreachable /\ pc \in {"tier2", "tier3", "write", "done"}) =>
       /\ Happened("request", "RIPE RIS")
       /\ ~HappenedWith("validate", "tier1", 0)
       /\ ~HappenedWith("validate", "tier1", 1)

C8_Witness ==
  /\ PrimaryUnreachable
  /\ Sleeps("PeeringDB") = <<10, 20>>
  /\ pc = "tier2"
  /\ Truthy(ripe_data)

\* C9: no exception of an attempt (timeout, connection error, non-2xx
\* status, 2xx body that is not JSON) leaves fetch_with_retry: the run goes
\* on, and the caller gets the parsed document or the empty result.
C9_FetchNeverRaises ==
  /\ raised \notin AttemptErrors
  /\ pc = "sleep" => (last_error \in AttemptErrors /\ raised = "none")
  /\ pc = "tier1" =>
       \/ peeringdb_data = None /\ last_error \in AttemptErrors
       \/ peeringdb_data \in PeeringdbResponses /\ last_error = "none"
  /\ pc = "tier2" =>
       \/ ripe_data = None /\ last_error \in AttemptErrors
       \/ ripe_data \in RipeResponses /\ last_error = "none"

C9_Witness ==
  /\ pc = "tier1"
  /\ peeringdb_data = None
  /\ last_error = "requests.JSONDecodeError"
  /\ raised = "none"

\* A file that is there but does not hold a JSON object.
Malformed(f) ==
  \/ f.kind \in {"unreadable", "bad_utf8", "bad_json"}
  \/ f.kind = "json" /\ ~IsDict(f.doc)

\* C10: load_existing_database never aborts the run: whatever the file
\* holds, main goes on to the first request of tier 1, and a malformed file
\* counts as an absent database.
C10_LoadNeverAborts ==
  Len(log) = 1 =>
    /\ raised = "none"
    /\ pc = "request"
    /\ source_name = "PeeringDB"
    /\ Malformed(file) => existing_database = None

\* C11: a validation failure at tier 1 or tier 2 makes the run advance and
\* never ends it: the failed snapshot is dropped and never written, the
\* fallback is requested right after a tier-1 failure, and the existing
\* database is consulted right after a tier-2 failure.
C11_ValidationFailureAdvances ==
  /\ \A i \in DOMAIN log :
       log[i] = Event("validate", "tier1", 0) =>
         IF i = Len(log)
         THEN /\ pc = "request"
              /\ source_name = "RIPE RIS"
              /\ attempt = 1
              /\ asn_database = None
              /\ raised = "none"
         ELSE log[i + 1] = Event("request", "RIPE RIS", 1)
  /\ \A i \in DOMAIN log :
       log[i] = Event("validate", "tier2", 0) =>
         IF i = Len(log)
         THEN /\ pc \in {"tier3", "done"}
              /\ asn_database = None
              /\ raised = "none"
              /\ pc = "done" => (~ExistingAvailable /\ exit_code = 1)
         ELSE log[i + 1].e = "validate" /\ log[i + 1].src = "tier3"
  /\ Wrote =>
       /\ log[Len(log) - 1].e = "validate"
       /\ log[Len(log) - 1].n = 1
       /\ file = [kind |-> "json", doc |-> asn_database]
       /\ validate_database(file.doc)

C11_Witness ==
  /\ Done
  /\ HappenedWith("validate", "tier1", 0)
  /\ HappenedWith("validate", "tier2", 0)
  /\ HappenedWith("validate", "tier3", 1)

\* ------------------------------------------------ single-function claims
ValidateDone == call.fn = "validate_database" /\ call.done

MergeDone == call.fn = "merge_databases" /\ call.done

Keys(database) == DOMAIN Get(database.d, "entries", EmptyDict)

KnownKeys(database) == Keys(database) \cap known_asns

\* C12: for a database whose entry_count meets the threshold, validation
\* passes exactly when twice the number of known ASNs among its keys is at
\* least the number of distinct known ASNs.
C12_CoverageBoundary ==
  (ValidateDone /\ Get(call.a.d, "entry_count", 0) >= MIN_EXPECTED_ENTRIES)
    => (call.out[1] <=>
          2 * Cardinality(KnownKeys(call.a)) >= Cardinality(known_asns))

C12_Witness ==
  /\ ValidateDone
  /\ Get(call.a.d, "entry_count", 0) >= MIN_EXPECTED_ENTRIES
  /\ 2 * Cardinality(KnownKeys(call.a)) = Cardinality(known_asns)
  /\ Cardinality(known_asns) < Len(known_asns_literal)
  /\ call.out[1]

\* C13: a database with fewer than MIN_EXPECTED_ENTRIES entries never
\* passes the validation of strategy 3.
C13_FewEntriesFail ==
  HappenedWith("validate", "tier3", 1)
    => Cardinality(Keys(existing_database)) >= MIN_EXPECTED_ENTRIES

\* C14: a key of both inputs maps to the primary's record in the merge.
C14_PrimaryWins ==
  MergeDone =>
    \A asn \in Keys(call.a) \cap Keys(call.b) :
      call.out.d.entries[asn] = call.a.d.entries[asn]

C14_Witness ==
  /\ MergeDone
  /\ 100 \in Keys(call.a) \cap Keys(call.b)
  /\ call.a.d.entries[100].name = <<"X">>
  /\ call.b.d.entries[100].name = <<"Y">>
  /\ call.out.d.entries[100].name = <<"X">>

\* C15: merging a snapshot with itself gives its entries and entry_count.
C15_MergeIdempotent ==
  (MergeDone /\ call.a = call.b) =>
     /\ call.out.d.entries = call.a.d.entries
     /\ call.out.d.entry_count = call.a.d.entry_count

C15_Witness ==
  /\ MergeDone
  /\ call.a = call.b
  /\ Keys(call.a) = MergeKeys
  /\ call.out.d.entry_count = NKeys

\* C16: the merge has exactly the keys of the two inputs, and its source is
\* the primary's source, " + ", and the fallback's source.
C16_UnionAndLabel ==
  MergeDone =>
     /\ Keys(call.out) = Keys(call.a) \cup Keys(call.b)
     /\ "source" \in DOMAIN call.a.d =>
          call.out.d.source = call.a.d.source \o <<" + ">> \o call.b.d.source

C16_Witness ==
  /\ MergeDone
  /\ Keys(call.a) = {100}
  /\ Keys(call.b) = {200}
  /\ "source" \in DOMAIN call.a.d
  /\ call.a.d.source = <<"PeeringDB">>
  /\ call.out.d.source = <<"PeeringDB", " + ", "RIPE NCC RIS">>

\* C20: two databases with the same entry_count and the same keys get the
\* same verdict.
C20_VerdictFromCountAndKeys ==
  ( /\ ValidateDone
    /\ Get(call.a.d, "entry_count", 0) = Get(call.b.d, "entry_count", 0)
    /\ Keys(call.a) = Keys(call.b) )
    => call.out[1] = call.out[2]

C20_Witness ==
  /\ ValidateDone
  /\ Keys(call.a) = Keys(call.b)
  /\ \A asn \in Keys(call.a) :
       call.a.d.entries[asn].name # call.b.d.entries[asn].name
  /\ call.out = << TRUE, TRUE >>

\* ------------------------------------------------------------- run claims
WellCounted(database) ==
  database.d.entry_count = Cardinality(DOMAIN database.d.entries)

\* C17: every snapshot a strategy is about to build (accepted or not), the
\* snapshot main holds, and the one it wrote, has an entry_count equal to
\* the number of its keys.
C17_EntryCountIsLen ==
  /\ (pc = "tier1" /\ Truthy(peeringdb_data) /\ IsDict(peeringdb_data)) =>
        WellCounted(transform_peeringdb_data(peeringdb_data, clock))
  /\ (pc = "tier2" /\ Truthy(ripe_data) /\ IsDict(ripe_data)) =>
        LET fresh == transform_ripe_data(ripe_data, clock) IN
        /\ WellCounted(fresh)
        /\ Truthy(existing_database) =>
             WellCounted(merge_databases(existing_database, fresh, clock + 1))
  /\ IsDict(asn_database) => WellCounted(asn_database)
  /\ Wrote => (file = [kind |-> "json", doc |-> asn_database]
               /\ WellCounted(file.doc))

\* A merge of overlapping inputs, built from a list that repeats ASNs, was
\* written.
C17_Witness ==
  /\ Wrote
  /\ Happened("merge", "tier2")
  /\ Keys(existing_database) \cap RipeAsnNumbers(ripe_data) # {}
  /\ Len(ripe_data.d.data.asns) > Cardinality(RipeAsnNumbers(ripe_data)) + 1

\* The requests and sleeps of the fetch from src, in order.
FetchTrace(src) ==
  LET OfFetch(ev) == ev.e \in {"request", "sleep"} /\ ev.src = src
  IN SelectSeq(log, OfFetch)

\* request 1, sleep, request 2, sleep, request 3
Schedule(src) ==
  [i \in 1..(2 * MAX_RETRIES - 1) |->
     IF i % 2 = 1 THEN Event("request", src, (i + 1) \div 2)
     ELSE Event("sleep", src, wait_time(i \div 2))]

IsPrefix(s, t) == Len(s) <= Len(t) /\ \A i \in DOMAIN s : s[i] = t[i]

\* C18: the requests and sleeps of one fetch are a prefix of request 1,
\* sleep, request 2, sleep, request 3; a sleep and a later request follow
\* a failed attempt only; a successful attempt ends the fetch with its
\* document, a failed last attempt ends it with None.
C18_StopsAtFirstSuccess ==
  /\ \A src \in {"PeeringDB", "RIPE RIS"} :
       IsPrefix(FetchTrace(src), Schedule(src))
  /\ pc = "sleep" => last_error \in AttemptErrors
  /\ (pc = "request" /\ attempt > 1) =>
        /\ last_error \in AttemptErrors
        /\ log[Len(log)] = Event("sleep", source_name, wait_time(attempt - 1))
  /\ (pc = "request" /\ attempt = 1) => FetchTrace(source_name) = << >>
  /\ pc \in {"tier1", "tier2"} =>
        LET data == IF pc = "tier1" THEN peeringdb_data ELSE ripe_data IN
        /\ log[Len(log)] = Event("request", source_name, attempt)
        /\ IF last_error = "none" THEN data \in Responses(source_name)
           ELSE data = None /\ attempt = MAX_RETRIES

C18_Witness ==
  /\ pc = "tier1"
  /\ last_error = "none"
  /\ FetchTrace("PeeringDB") =
       << Event("request", "PeeringDB", 1),
          Event("sleep", "PeeringDB", wait_time(1)),
          Event("request", "PeeringDB", 2) >>
  /\ peeringdb_data = PdbHealthy

\* C19: the file is read once, as the first step of the run, and until
\* the run writes, existing_database is what that read returned.
C19_LoadedOnceAtStart ==
  /\ log # << >> => log[1] = Event("load", "file", 0)
  /\ Count("load", "file") <= 1
  /\ (pc # "load" /\ raised = "none" /\ ~Wrote) =>
        existing_database = load_existing_database(file).ret
  /\ \A i \in DOMAIN log :
       (log[i].e = "validate" /\ log[i].src = "tier3") =>
          log[i].n = Verdict(validate_database(existing_database))

C19_Witness ==
  /\ Done
  /\ Happened("merge", "tier2")
  /\ HappenedWith("validate", "tier3", 1)
  /\ Count("load", "file") = 1

\* C21: no step after the load changes the loaded database, merge and
\* validation included, and the write leaves the snapshot it writes as it
\* was.
C21_SnapshotsImmutable ==
  [][ /\ pc # "load" => existing_database' = existing_database
      /\ pc = "write" => asn_database' = asn_database ]_vars

\* The loaded database was the primary of a merge and was then validated by
\* strategy 3 as the file still holds it.
C21_Witness ==
  /\ Done
  /\ Happened("merge", "tier2")
  /\ HappenedWith("validate", "tier2", 0)
  /\ HappenedWith("validate", "tier3", 1)
  /\ file = [kind |-> "json", doc |-> existing_database]

PeeringdbDone == call.fn = "transform_peeringdb_data" /\ call.done

RipeDone == call.fn = "transform_ripe_data" /\ call.done

\* The entry the claim gives a network record that has an asn.
ExpectedEntry(network) ==
  [name |-> IF "name" \in DOMAIN network /\ network.name # EmptyStr
            THEN network.name ELSE <<"AS", network.asn>>,
   type |-> IF "info_type" \in DOMAIN network /\ network.info_type # EmptyStr
            THEN network.info_type ELSE <<"Unknown">>]

\* C22: the entries transform_peeringdb_data builds have one key per asn of
\* the list, none for a record without asn, and under each key the name
\* and type of the last record with that asn, defaulted to AS<asn> and
\* Unknown when missing or empty.
C22_PeeringdbEntries ==
  PeeringdbDone =>
    LET data == call.a.d.data
        entries == call.out.d.entries
        WithAsn == {i \in DOMAIN data : "asn" \in DOMAIN data[i]}
        Last(asn) == CHOOSE i \in WithAsn :
                       /\ data[i].asn = asn
                       /\ \A j \in WithAsn : data[j].asn = asn => j <= i
    IN /\ DOMAIN entries = {str(data[i].asn) : i \in WithAsn}
       /\ \A i \in WithAsn :
            entries[str(data[i].asn)] = ExpectedEntry(data[Last(data[i].asn)])

\* A record without asn is dropped, an asn repeats with another name, and
\* an empty name and a missing info_type are defaulted.
C22_Witness ==
  /\ PeeringdbDone
  /\ call.a.d.data = << [asn |-> 1, name |-> <<"N1">>, info_type |-> <<"NSP">>],
                        [asn |-> 1, name |-> EmptyStr] >>
  /\ call.out.d.entries = (1 :> [name |-> <<"AS", 1>>, type |-> <<"Unknown">>])

\* C23: the entries transform_ripe_data builds have exactly the non-null
\* numbers of the list as keys, each named AS<asn> with type Unknown, and
\* the snapshot's source is RIPE NCC RIS.
C23_RipeEntries ==
  RipeDone =>
    LET asns == call.a.d.data.asns
        entries == call.out.d.entries
        numbers == {asns[i].v : i \in {j \in DOMAIN asns : asns[j] # None}}
    IN /\ DOMAIN entries = {str(n) : n \in numbers}
       /\ \A n \in numbers :
            entries[str(n)] = [name |-> <<"AS", n>>, type |-> <<"Unknown">>]
       /\ call.out.d.source = <<"RIPE NCC RIS">>

C23_Witness ==
  /\ RipeDone
  /\ call.a.d.data.asns = << [t |-> "int", v |-> 2], None >>
  /\ DOMAIN call.out.d.entries = {2}

\* C24: the run is about to write, or has written, only directly after a
\* validation of strategy 1 or 2 that passed, and the snapshot concerned
\* passes validate_database.
C24_WriteOnlyValidated ==
  /\ pc = "write" =>
       /\ log # << >>
       /\ log[Len(log)].e = "validate"
       /\ log[Len(log)].src \in {"tier1", "tier2"}
       /\ log[Len(log)].n = 1
       /\ IsDict(asn_database)
       /\ validate_database(asn_database)
  /\ \A i \in DOMAIN log :
       log[i].e = "write" =>
         /\ i > 1
         /\ log[i - 1].e = "validate"
         /\ log[i - 1].n = 1
         /\ \A j \in DOMAIN log : log[j].e = "validate" => j < i
  /\ Wrote =>
       /\ file.kind = "json"
       /\ file.doc = asn_database
       /\ validate_database(file.doc)

\* The fallback snapshot alone was written after strategy 1 was rejected.
C24_Witness ==
  /\ Wrote
  /\ HappenedWith("validate", "tier1", 0)
  /\ HappenedWith("validate", "tier2", 1)
  /\ ~Happened("merge", "tier2")

\* C25: a run that started with a file holding a database that passes
\* validate_database ends with exit status 0 and with such a file.
C25_ValidStaysValid ==
  (Done /\ ExistingValid) =>
     /\ exit_code = 0
     /\ file.kind = "json"
     /\ validate_database(file.doc)

\* The loaded database passes validation and counts its entries rightly.
ExistingSound == ExistingValid /\ WellCounted(existing_database)

\* C26: the merge of a loaded database that passes validation and whose
\* entry_count is its number of entries, with the snapshot built from the
\* fallback data, passes validation; with such a database loaded, strategy
\* 2 accepts whenever the fallback fetch returned a non-empty JSON object.
C26_MergePreservesValidity ==
  /\ (pc = "tier2" /\ Truthy(ripe_data) /\ IsDict(ripe_data) /\ ExistingSound)
       => validate_database(
            merge_databases(existing_database,
                            transform_ripe_data(ripe_data, clock), clock + 1))
  /\ ( /\ ExistingSound
       /\ Truthy(ripe_data) /\ IsDict(ripe_data)
       /\ pc \in {"tier3", "write", "done"} ) =>
       /\ Happened("merge", "tier2")
       /\ HappenedWith("validate", "tier2", 1)
       /\ pc \in {"write", "done"}
       /\ IsDict(asn_database)

\* The fallback data alone would fail validation; merged into the loaded
\* database it was accepted.
C26_Witness ==
  /\ Done
  /\ ExistingSound
  /\ ripe_data = RipeFewEntries
  /\ ~validate_database(transform_ripe_data(ripe_data, 0))
  /\ HappenedWith("validate", "tier2", 1)
  /\ Wrote

AllSleeps ==
  LET IsSleep(ev) == ev.e = "sleep"
      evs == SelectSeq(log, IsSleep)
  IN [i \in DOMAIN evs |-> evs[i].n]

\* At most 3 requests to each API, none to the primary after one to the
\* fallback, at most 4 sleeps of at most 60 seconds in all.
RequestBudget ==
  /\ Count("request", "PeeringDB") <= MAX_RETRIES
  /\ Count("request", "RIPE RIS") <= MAX_RETRIES
  /\ Count("request", "PeeringDB") + Count("request", "RIPE RIS") <= 6
  /\ \A i, j \in DOMAIN log :
       (log[i].e = "request" /\ log[i].src = "RIPE RIS" /\ i < j)
          => ~(log[j].e = "request" /\ log[j].src = "PeeringDB")
  /\ Len(AllSleeps) <= 4
  /\ Sum(AllSleeps) <= 60

\* C27: every run ends, and all along it stays within the budget of
\* requests and sleeps.
C27_TerminatesWithinBudget == <>Done /\ []RequestBudget

\* A run that used the whole budget.
C27_Witness ==
  /\ Done
  /\ Count("request", "PeeringDB") + Count("request", "RIPE RIS") = 6
  /\ Len(AllSleeps) = 4
  /\ Sum(AllSleeps) = 60

\* C28: a run that loaded a database and did not accept at strategy 1 ends
\* with every ASN key of the loaded database in the file.
C28_KeysKept ==
  (Done /\ IsDict(existing_database)
        /\ ~HappenedWith("validate", "tier1", 1)) =>
     /\ file.kind = "json"
     /\ IsDict(file.doc)
     /\ Keys(existing_database) \subseteq Keys(file.doc)

\* Strategy 2 wrote a merge that holds a key the fallback data lacks.
C28_Witness ==
  /\ Done
  /\ Tier2Accept
  /\ Happened("merge", "tier2")
  /\ \E asn \in Keys(existing_database) :
       /\ asn \notin RipeAsnNumbers(ripe_data)
       /\ asn \in Keys(file.doc)

\* C29: the label strategy 2 gives an accepted merge, and writes, is the
\* loaded database's label followed by " + " and "RIPE NCC RIS": two parts
\* longer than the loaded one.
C29_LabelGrows ==
  (MergedAccepted /\ "source" \in DOMAIN existing_database.d) =>
     LET loaded == existing_database.d.source IN
     /\ asn_database.d.source = loaded \o <<" + ", "RIPE NCC RIS">>
     /\ Len(asn_database.d.source) = Len(loaded) + 2
     /\ Wrote => file.doc.d.source = loaded \o <<" + ", "RIPE NCC RIS">>

\* The file an earlier merge wrote got its second suffix.
C29_Witness ==
  /\ Done
  /\ MergedAccepted
  /\ "source" \in DOMAIN existing_database.d
  /\ existing_database.d.source = <<"PeeringDB", " + ", "RIPE NCC RIS">>
  /\ file.doc.d.source =
       <<"PeeringDB", " + ", "RIPE NCC RIS", " + ", "RIPE NCC RIS">>

\* An empty JSON object or list.
Empty(v) == v \in { [t |-> "dict", d |-> EmptyDict], [t |-> "list", l |-> << >>] }

\* C30: after a fetch returned an empty document its strategy neither
\* transformed nor validated and the run went on to the next strategy, as
\* after a failed fetch; a database loaded as an empty object is neither
\* merged nor validated, and a run that comes to strategy 3 with it fails.
C30_EmptyIsAbsent ==
  /\ (Empty(peeringdb_data) /\ pc # "tier1") =>
       /\ ~Happened("validate", "tier1")
       /\ source_name = "RIPE RIS"
       /\ \/ pc = "request" /\ attempt = 1
          \/ HappenedWith("request", "RIPE RIS", 1)
  /\ (Empty(ripe_data) /\ pc # "tier2") =>
       /\ ~Happened("validate", "tier2")
       /\ ~Happened("merge", "tier2")
       /\ pc \in {"tier3", "done"}
       /\ asn_database = None
       /\ ~Wrote
  /\ Empty(existing_database) =>
       /\ ~Happened("merge", "tier2")
       /\ ~Happened("validate", "tier3")
       /\ (Done /\ raised = "none" /\ ~Wrote) => exit_code = 1

\* All three were empty and the run failed.
C30_Witness ==
  /\ Done
  /\ Empty(peeringdb_data)
  /\ Empty(ripe_data)
  /\ Empty(existing_database)
  /\ exit_code = 1
  /\ raised = "none"

====
